---- MODULE Spec2Model ----
(***************************************************************************)
(* A model of gittodoc's ingestion core:                                   *)
(*   - gitingest/ingestion.py : ingest_query on a directory target, with  *)
(*     _process_node, _process_symlink, _process_file, limit_exceeded and  *)
(*     the S3 step; apply_gitingest_file;                                  *)
(*   - gitingest/cloning.py   : clone_repo (command building, follow-up,   *)
(*     log lines and error texts);                                         *)
(*   - gitingest/utils/git_utils.py : check_repo_exists.                   *)
(*                                                                         *)
(* Text is modelled as sequences of one-character strings (paths, glob     *)
(* patterns, branch names) or of lexical tokens (URLs, sub-paths, HTTP     *)
(* status lines), so that matching, lower-casing, stripping and splitting  *)
(* are computed and not assumed.                                           *)
(***************************************************************************)
EXTENDS Integers, Sequences, FiniteSets, TLC

(***************************************************************************)
(* gitingest/config.py.  The three budgets are read from the environment   *)
(* (GITINGEST_MAX_FILES, GITINGEST_MAX_TOTAL_SIZE_MB,                      *)
(* GITINGEST_MAX_DIRECTORY_DEPTH); the model runs with a small configured  *)
(* value of each so that every budget is reached.  The byte budget is a    *)
(* whole number of MiB, and all sizes of the model are counted in MiB.     *)
(***************************************************************************)
MAX_FILES == 2

MAX_TOTAL_SIZE_BYTES == 3

MAX_DIRECTORY_DEPTH == 1

PLACEHOLDER_BUCKET == "your-gitingest-bucket-name"

\* Largest size of one regular file of the modelled file systems.
MaxFileSize == 2

\* Number of times ingest_query is run on the same, unchanged file system.
MaxRuns == 2

(***************************************************************************)
(* The file systems.  A path is the sequence of its components relative to *)
(* query.local_path; the traversal root is <<>>.                           *)
(***************************************************************************)
Paths ==
  { <<"B">>, <<"a">>, <<"b">>,
    <<"a", "B">>, <<"a", "a">>,
    <<"a", "a", "a">> }

Kinds == {"none", "file", "symlink", "dir", "other"}

Entries ==
  { [kind |-> k, size |-> 0] : k \in Kinds \ {"file"} }
    \cup { [kind |-> "file", size |-> s] : s \in 1..MaxFileSize }

Parent(p) == SubSeq(p, 1, Len(p) - 1)

\* An entry exists only inside a directory; sockets and the like ("other")
\* are tried at the root only.
WellFormed(f) ==
  \A p \in Paths :
    /\ (Len(p) > 1 /\ f[p].kind # "none") => f[Parent(p)].kind = "dir"
    /\ (Len(p) > 1 \/ p = <<"B">>) => f[p].kind # "other"

FileSystems == { f \in [Paths -> Entries] : WellFormed(f) }

\* Path.iterdir(): the entries of directory p, in no particular order.
Listing(f, p) ==
  { q \in Paths : Len(q) = Len(p) + 1 /\ Parent(q) = p /\ f[q].kind # "none" }

(***************************************************************************)
(* Character codes of the names used, for case-sensitive ordering.         *)
(***************************************************************************)
Ord == [B |-> 66, a |-> 97, b |-> 98]

(***************************************************************************)
(* Glob matching (fnmatch) of a relative path against a pattern, both      *)
(* sequences of characters; "*" matches any run of characters, "/" too.    *)
(***************************************************************************)
RECURSIVE PathStr(_)
PathStr(p) ==
  IF Len(p) = 0 THEN <<>>
  ELSE IF Len(p) = 1 THEN <<p[1]>>
  ELSE <<p[1], "/">> \o PathStr(Tail(p))

RECURSIVE fnmatch(_, _)
fnmatch(s, pat) ==
  IF pat = <<>> THEN s = <<>>
  ELSE IF Head(pat) = "*"
    THEN fnmatch(s, Tail(pat)) \/ (s # <<>> /\ fnmatch(Tail(s), pat))
    ELSE s # <<>> /\ Head(s) = Head(pat) /\ fnmatch(Tail(s), Tail(pat))

_should_exclude(p, patterns) == \E pattern \in patterns : fnmatch(PathStr(p), pattern)

_should_include(p, patterns) == \E pattern \in patterns : fnmatch(PathStr(p), pattern)

\* The pattern sets a query is run with: "*B" to ignore, "a*" to include.
IgnoreChoices == { {}, { <<"*", "B">> } }

IncludeChoices == { {}, { <<"a", "*">> } }

(***************************************************************************)
(* FileSystemNode and FileSystemStats (gitingest/schemas.py): every        *)
(* counter a constructor call does not pass starts at 0, children empty.   *)
(***************************************************************************)
FileSystemNode(name, type, size, file_count, path, depth) ==
  [ name |-> name, type |-> type, size |-> size, file_count |-> file_count,
    dir_count |-> 0, depth |-> depth, path |-> path, children |-> <<>> ]

FileSystemStats == [total_files |-> 0, total_size |-> 0]

NoNode == FileSystemNode("", "none", 0, 0, <<>>, 0)

\* FileSystemNode.sort_children: directories before files, then the names
\* in case-sensitive (code point) order.
SortRank(n) == IF n.type = "dir" THEN 0 ELSE 1

SortBefore(x, y) ==
  \/ SortRank(x) < SortRank(y)
  \/ SortRank(x) = SortRank(y) /\ Ord[x.name] < Ord[y.name]

sort_children(node) ==
  [node EXCEPT !.children = SortSeq(node.children, SortBefore)]

(***************************************************************************)
(* ingestion.py: the pure parts of the traversal.                          *)
(***************************************************************************)
\* limit_exceeded without its depth test: a fault C4 must detect.
limit_exceeded_NoDepth(st, depth) ==
  \/ st.total_files >= MAX_FILES
  \/ st.total_size >= MAX_TOTAL_SIZE_BYTES

limit_exceeded(st, depth) ==
  \/ depth > MAX_DIRECTORY_DEPTH
  \/ st.total_files >= MAX_FILES
  \/ st.total_size >= MAX_TOTAL_SIZE_BYTES

\* The filter with an include match overriding an ignore match: a fault C6
\* must detect.
PassesFilters_IncludeFirst(p, ignore, include) ==
  IF include # {}
    THEN _should_include(p, include)
    ELSE ~(ignore # {} /\ _should_exclude(p, ignore))

\* _process_node, lines 214-218: TRUE when the loop goes on to classify p.
PassesFilters(p, ignore, include) ==
  /\ ~(ignore # {} /\ _should_exclude(p, ignore))
  /\ ~(include # {} /\ ~_should_include(p, include))

Last(p) == p[Len(p)]

\* _process_symlink: the parent node and the stats after the call.
_process_symlink(parent, st, p) ==
  LET child == FileSystemNode(Last(p), "symlink", 0, 0, p, parent.depth + 1)
  IN  [ node  |-> [parent EXCEPT !.children = Append(@, child),
                                 !.file_count = @ + 1],
        stats |-> [st EXCEPT !.total_files = @ + 1],
        skip  |-> "no" ]

\* The size test without the size of the file at hand: a fault C3 must
\* detect.
WouldExceedSize_Late(st, file_size) ==
  st.total_size > MAX_TOTAL_SIZE_BYTES

\* _process_file, line 297.
WouldExceedSize(st, file_size) ==
  st.total_size + file_size > MAX_TOTAL_SIZE_BYTES

\* _process_file counting a file it skips for its size: a fault C17 must
\* detect.
_process_file_CountsSkipped(parent, st, p, file_size) ==
  LET st1 == [ total_files |-> st.total_files + 1,
               total_size  |-> st.total_size + file_size ]
      child == FileSystemNode(Last(p), "file", file_size, 1, p,
                              parent.depth + 1)
  IN  IF WouldExceedSize(st, file_size)
        THEN [ node |-> parent,
               stats |-> [st EXCEPT !.total_files = @ + 1],
               skip |-> "size" ]
      ELSE IF st1.total_files > MAX_FILES
        THEN [node |-> parent, stats |-> st1, skip |-> "count"]
      ELSE [ node  |-> [parent EXCEPT !.children = Append(@, child),
                                      !.size = @ + file_size,
                                      !.file_count = @ + 1],
             stats |-> st1,
             skip  |-> "no" ]

\* _process_file: the parent node and the stats after the call, and which
\* of the two early returns was taken.
_process_file(parent, st, p, file_size) ==
  IF WouldExceedSize(st, file_size)
    THEN [node |-> parent, stats |-> st, skip |-> "size"]
    ELSE
      LET st1 == [ total_files |-> st.total_files + 1,
                   total_size  |-> st.total_size + file_size ]
          child == FileSystemNode(Last(p), "file", file_size, 1, p,
                                  parent.depth + 1)
      IN  IF st1.total_files > MAX_FILES
            THEN [node |-> parent, stats |-> st1, skip |-> "count"]
            ELSE [ node  |-> [parent EXCEPT !.children = Append(@, child),
                                            !.size = @ + file_size,
                                            !.file_count = @ + 1],
                   stats |-> st1,
                   skip  |-> "no" ]

\* The fold without the child directory itself in dir_count: a fault C5
\* must detect.
FoldChild_NoSelf(parent, child) ==
  [parent EXCEPT !.children = Append(@, child),
                 !.size = @ + child.size,
                 !.file_count = @ + child.file_count,
                 !.dir_count = @ + child.dir_count]

\* _process_node, lines 239-242: a finished child directory is linked under
\* its parent and its totals are folded upward.
FoldChild(parent, child) ==
  [parent EXCEPT !.children = Append(@, child),
                 !.size = @ + child.size,
                 !.file_count = @ + child.file_count,
                 !.dir_count = @ + 1 + child.dir_count]

\* A call that a reached file budget does not cut off: a fault C18 must
\* detect.
EnterFrame_FilesIgnored(f, node, st) ==
  IF node.depth > MAX_DIRECTORY_DEPTH \/ st.total_size >= MAX_TOTAL_SIZE_BYTES
    THEN [node |-> node, todo |-> {}, cut |-> TRUE]
    ELSE [node |-> node, todo |-> Listing(f, node.path), cut |-> FALSE]

\* _process_node, lines 209-212: the frame of a call on `node`.  A call cut
\* off by limit_exceeded lists nothing and returns before sort_children.
EnterFrame(f, node, st) ==
  IF limit_exceeded(st, node.depth)
    THEN [node |-> node, todo |-> {}, cut |-> TRUE]
    ELSE [node |-> node, todo |-> Listing(f, node.path), cut |-> FALSE]

\* A return without sort_children: a fault C7 must detect.
LeaveFrame_NoSort(frame) == frame.node

\* _process_node, line 246 (not reached by a call that was cut off).
LeaveFrame(frame) ==
  IF frame.cut THEN frame.node ELSE sort_children(frame.node)

(***************************************************************************)
(* output_formatters.format_node: tree text and content blob, both in the  *)
(* order of the sorted tree.                                               *)
(***************************************************************************)
RECURSIVE TreeText(_)
RECURSIVE TreeTextAll(_)
TreeText(n) == <<[depth |-> n.depth, name |-> n.name, type |-> n.type]>>
                 \o TreeTextAll(n.children)
TreeTextAll(ns) ==
  IF ns = <<>> THEN <<>> ELSE TreeText(Head(ns)) \o TreeTextAll(Tail(ns))

RECURSIVE ContentBlob(_)
RECURSIVE ContentBlobAll(_)
ContentBlob(n) ==
  IF n.type = "file" THEN <<n.path>>
  ELSE IF n.type = "dir" THEN ContentBlobAll(n.children)
  ELSE <<>>
ContentBlobAll(ns) ==
  IF ns = <<>> THEN <<>> ELSE ContentBlob(Head(ns)) \o ContentBlobAll(Tail(ns))

format_node(n) ==
  [ summary |-> [files |-> n.file_count, size |-> n.size],
    tree    |-> TreeText(n),
    content |-> ContentBlob(n) ]

(***************************************************************************)
(* State of one ingestion (ingest_query).                                  *)
(*   fs, ignore_patterns, include_patterns : the directory and the query   *)
(*   pc        : "idle", "walking" (inside _process_node) or "done"        *)
(*   stack     : the active _process_node calls, innermost last; a frame   *)
(*               holds the call's node and the entries its loop has still  *)
(*               to take from iterdir()                                    *)
(*   stats     : the FileSystemStats threaded through the traversal        *)
(*   root_node : the tree ingest_query formats, once the traversal is over *)
(*   bucket, upload, result, warnings : the configured S3 bucket read at   *)
(*               line 95, what became of the upload ("none", "ok",         *)
(*               "failed"), the returned triple, the warnings.warn calls   *)
(*   runs, first_tree, first_skipped : the number of completed runs, the   *)
(*               tree and the budget skips of the first                    *)
(*   met, enumerated, skipped : history: the entries the loops have taken, *)
(*               the directories whose entries were listed, and the        *)
(*               entries a budget dropped: the files _process_file         *)
(*               returned early on ("size", "count") and the directories   *)
(*               limit_exceeded cut off on a budget ("cut")                *)
(***************************************************************************)
VARIABLES fs, ignore_patterns, include_patterns, pc, stack, stats, root_node,
          bucket, upload, result, warnings, runs, first_tree, first_skipped,
          met, enumerated, skipped

ingest_vars ==
  << fs, ignore_patterns, include_patterns, pc, stack, stats, root_node,
     bucket, upload, result, warnings, runs, first_tree, first_skipped,
     met, enumerated, skipped >>

(***************************************************************************)
(* State of one clone_repo call (cloning.py).                              *)
(*   config : the CloneConfig (url, commit, branch, subpath, blob)         *)
(*   pat    : config.GITHUB_PAT, <<>> when unset or empty                  *)
(*   cpc    : "start", "probe" (awaiting check_repo_exists), "clone"       *)
(*            (about to run git clone), "checkout", "done" or "failed"     *)
(*   probe, exists : what curl returned to check_repo_exists and what the  *)
(*            function made of it                                          *)
(*   clone_cmd, clone_env, checkout_cmd : the argument lists built and the *)
(*            credentials put in the clone's environment                   *)
(*   procs  : the external processes started so far, in order              *)
(*   error  : the exception that ended the call, or "none"                 *)
(*   message : the text of that exception, <<>> when there is none         *)
(*   log    : the lines handed to the logger so far                        *)
(*   git_stderr : what a failed git clone wrote to its standard error      *)
(***************************************************************************)
VARIABLES config, pat, cpc, probe, exists, clone_cmd, clone_env,
          checkout_cmd, procs, error, message, log, git_stderr

clone_vars ==
  << config, pat, cpc, probe, exists, clone_cmd, clone_env, checkout_cmd,
     procs, error, message, log, git_stderr >>

(***************************************************************************)
(* State of one apply_gitingest_file call (ingestion.py).                  *)
(*   manifest : the .gitingest file of the directory: whether it is there, *)
(*              whether it is valid TOML, and the document it holds        *)
(*   query_ignore : query.ignore_patterns, None or a set of patterns       *)
(*   query_before : its value when the call was made                       *)
(*   mpc      : "begin", "loaded" (tomllib.load has returned), "returned"  *)
(*              or "raised"                                                *)
(*   m_error  : the exception that left the call, or "none"                *)
(*   m_warnings : the warnings.warn calls made                             *)
(***************************************************************************)
VARIABLES manifest, query_ignore, query_before, mpc, m_error, m_warnings

manifest_vars ==
  << manifest, query_ignore, query_before, mpc, m_error, m_warnings >>

NoResult == [summary |-> "none", tree |-> "none", third |-> "none"]

IngestInit ==
  /\ fs \in FileSystems
  /\ ignore_patterns \in IgnoreChoices
  /\ include_patterns \in IncludeChoices
  /\ pc = "idle"
  /\ stack = <<>>
  /\ stats = FileSystemStats
  /\ root_node = NoNode
  /\ bucket = "unread"
  /\ upload = "none"
  /\ result = NoResult
  /\ warnings = {}
  /\ runs = 0
  /\ first_tree = NoNode
  /\ first_skipped = {}
  /\ met = {}
  /\ enumerated = {}
  /\ skipped = {}

Top == stack[Len(stack)]

\* The stack with its innermost frame replaced.
WithTop(frame) == [stack EXCEPT ![Len(stack)] = frame]

Enumerates(frame) == IF frame.cut THEN {} ELSE {frame.node.path}

\* History: the directory of a frame that a file or byte budget cut off.
BudgetCut(frame) ==
  IF frame.cut /\ frame.node.depth <= MAX_DIRECTORY_DEPTH
    THEN {[path |-> frame.node.path, why |-> "cut"]}
    ELSE {}

\* ingest_query, lines 76-89: the root node, fresh stats, and the call of
\* _process_node on the root.
IngestStart ==
  /\ pc = "idle"
  /\ LET root  == FileSystemNode("", "dir", 0, 0, <<>>, 0)
         frame == EnterFrame(fs, root, FileSystemStats)
     IN  /\ stats' = FileSystemStats
         /\ stack' = <<frame>>
         /\ enumerated' = Enumerates(frame)
         /\ skipped' = BudgetCut(frame)
  /\ pc' = "walking"
  /\ met' = {}
  /\ UNCHANGED << fs, ignore_patterns, include_patterns, root_node, bucket,
                  upload, result, warnings, runs, first_tree, first_skipped >>
  /\ UNCHANGED << clone_vars, manifest_vars >>

\* The loop of the innermost _process_node call takes entry sub.
Takes(sub) ==
  /\ pc = "walking"
  /\ sub \in Top.todo
  /\ met' = met \cup {sub}
  /\ UNCHANGED << fs, ignore_patterns, include_patterns, pc, root_node,
                  bucket, upload, result, warnings, runs, first_tree,
                  first_skipped >>
  /\ UNCHANGED << clone_vars, manifest_vars >>

\* _process_node, lines 214-218: an excluded or not included entry.
SkipFiltered(sub) ==
  /\ Takes(sub)
  /\ ~PassesFilters(sub, ignore_patterns, include_patterns)
  /\ stack' = WithTop([Top EXCEPT !.todo = @ \ {sub}])
  /\ UNCHANGED << stats, enumerated, skipped >>

\* _process_node, lines 220-221.
ProcessSymlink(sub) ==
  /\ Takes(sub)
  /\ PassesFilters(sub, ignore_patterns, include_patterns)
  /\ fs[sub].kind = "symlink"
  /\ LET r == _process_symlink(Top.node, stats, sub)
     IN  /\ stack' = WithTop([Top EXCEPT !.todo = @ \ {sub}, !.node = r.node])
         /\ stats' = r.stats
  /\ UNCHANGED << enumerated, skipped >>

\* _process_node, lines 222-223.
ProcessFile(sub) ==
  /\ Takes(sub)
  /\ PassesFilters(sub, ignore_patterns, include_patterns)
  /\ fs[sub].kind = "file"
  /\ LET r == _process_file(Top.node, stats, sub, fs[sub].size)
     IN  /\ stack' = WithTop([Top EXCEPT !.todo = @ \ {sub}, !.node = r.node])
         /\ stats' = r.stats
         /\ skipped' = IF r.skip = "no" THEN skipped
                       ELSE skipped \cup {[path |-> sub, why |-> r.skip]}
  /\ UNCHANGED enumerated

\* _process_node, lines 224-238: the child directory node and the recursive
\* call on it.
Descend(sub) ==
  /\ Takes(sub)
  /\ PassesFilters(sub, ignore_patterns, include_patterns)
  /\ fs[sub].kind = "dir"
  /\ LET child == FileSystemNode(Last(sub), "dir", 0, 0, sub, Top.node.depth + 1)
         frame == EnterFrame(fs, child, stats)
     IN  /\ stack' = Append(WithTop([Top EXCEPT !.todo = @ \ {sub}]), frame)
         /\ enumerated' = enumerated \cup Enumerates(frame)
         /\ skipped' = skipped \cup BudgetCut(frame)
  /\ UNCHANGED stats

\* _process_node, lines 243-244: neither symlink, file nor directory.
SkipUnknown(sub) ==
  /\ Takes(sub)
  /\ PassesFilters(sub, ignore_patterns, include_patterns)
  /\ fs[sub].kind = "other"
  /\ stack' = WithTop([Top EXCEPT !.todo = @ \ {sub}])
  /\ UNCHANGED << stats, enumerated, skipped >>

\* A return that links the child directory only if its call was not cut
\* off: a fault C19 must detect.
ReturnDir_DropsCut ==
  /\ pc = "walking"
  /\ Len(stack) > 1
  /\ Top.todo = {}
  /\ LET child  == LeaveFrame(Top)
         caller == stack[Len(stack) - 1]
         rest   == SubSeq(stack, 1, Len(stack) - 1)
     IN  stack' = [rest EXCEPT ![Len(rest)] =
                     [caller EXCEPT !.node = IF Top.cut THEN caller.node
                                             ELSE FoldChild(caller.node, child)]]
  /\ UNCHANGED << fs, ignore_patterns, include_patterns, pc, stats, root_node,
                  bucket, upload, result, warnings, runs, first_tree,
                  first_skipped, met, enumerated, skipped >>
  /\ UNCHANGED << clone_vars, manifest_vars >>

\* _process_node, lines 246 and 239-242: the innermost call has no entry
\* left; it sorts its children and returns to its caller, which links the
\* child and folds its totals.
ReturnDir ==
  /\ pc = "walking"
  /\ Len(stack) > 1
  /\ Top.todo = {}
  /\ LET child  == LeaveFrame(Top)
         caller == stack[Len(stack) - 1]
         rest   == SubSeq(stack, 1, Len(stack) - 1)
     IN  stack' = [rest EXCEPT ![Len(rest)] =
                     [caller EXCEPT !.node = FoldChild(caller.node, child)]]
  /\ UNCHANGED << fs, ignore_patterns, include_patterns, pc, stats, root_node,
                  bucket, upload, result, warnings, runs, first_tree,
                  first_skipped, met, enumerated, skipped >>
  /\ UNCHANGED << clone_vars, manifest_vars >>

Buckets == {"", PLACEHOLDER_BUCKET, "my-bucket"}

S3Configured(b) == b # "" /\ b # PLACEHOLDER_BUCKET

Third(tag, content, url) == [tag |-> tag, content |-> content, url |-> url]

\* ingest_query, lines 93-120, on the digest d: the returned triple and
\* the warnings, for bucket b and an upload that succeeds or not.
Publish(d, b, upload_ok) ==
  IF S3Configured(b)
    THEN IF upload_ok
           THEN [ result |-> [summary |-> d.summary, tree |-> d.tree,
                              third |-> Third("url", <<>>, b)],
                  warned |-> {}, upload |-> "ok" ]
           ELSE [ result |-> [summary |-> d.summary, tree |-> d.tree,
                              third |-> Third("None", <<>>, "")],
                  warned |-> {"S3 upload configured but failed"},
                  upload |-> "failed" ]
    ELSE [ result |-> [summary |-> d.summary, tree |-> d.tree,
                       third |-> Third("content", d.content, "")],
           warned |-> {}, upload |-> "none" ]

\* ingest_query, lines 85-120: the root call returns, the tree is formatted
\* and the digest is published to bucket b if one is configured.
IngestFinish(b, upload_ok) ==
  /\ pc = "walking"
  /\ Len(stack) = 1
  /\ Top.todo = {}
  /\ LET root == LeaveFrame(Top)
         out  == Publish(format_node(root), b, upload_ok)
     IN  /\ root_node' = root
         /\ first_tree' = IF runs = 0 THEN root ELSE first_tree
         /\ result' = out.result
         /\ upload' = out.upload
         /\ warnings' = warnings \cup out.warned
  /\ bucket' = b
  /\ first_skipped' = IF runs = 0 THEN skipped ELSE first_skipped
  /\ stack' = <<>>
  /\ pc' = "done"
  /\ runs' = runs + 1
  /\ UNCHANGED << fs, ignore_patterns, include_patterns, stats, met,
                  enumerated, skipped >>
  /\ UNCHANGED << clone_vars, manifest_vars >>

\* ingest_query is called again on the same directory with the same query.
Rerun ==
  /\ pc = "done"
  /\ runs < MaxRuns
  /\ pc' = "idle"
  /\ root_node' = NoNode
  /\ bucket' = "unread"
  /\ upload' = "none"
  /\ result' = NoResult
  /\ warnings' = {}
  /\ UNCHANGED << fs, ignore_patterns, include_patterns, stack, stats, runs,
                  first_tree, first_skipped, met, enumerated, skipped >>
  /\ UNCHANGED << clone_vars, manifest_vars >>

IngestNext ==
  \/ IngestStart
  \/ \E sub \in Paths :
       \/ SkipFiltered(sub)
       \/ ProcessSymlink(sub)
       \/ ProcessFile(sub)
       \/ Descend(sub)
       \/ SkipUnknown(sub)
  \/ ReturnDir
  \/ \E b \in Buckets, upload_ok \in BOOLEAN : IngestFinish(b, upload_ok)

(***************************************************************************)
(* Text of cloning.py and git_utils.py.  A URL or a sub-path is a sequence *)
(* of tokens ("https://", a host, "/", a name, ".git"); a branch name and  *)
(* the access token are sequences of characters; a command is a sequence   *)
(* of arguments, each of them such a sequence.                             *)
(***************************************************************************)
Contains(text, tok) == \E i \in 1..Len(text) : text[i] = tok

StartsWith(text, prefix) ==
  Len(text) >= Len(prefix) /\ SubSeq(text, 1, Len(prefix)) = prefix

UpperToLower ==
  [M |-> "m", A |-> "a", I |-> "i", N |-> "n", S |-> "s", T |-> "t",
   E |-> "e", R |-> "r"]

\* str.lower()
str_lower(text) ==
  [i \in 1..Len(text) |->
     IF text[i] \in DOMAIN UpperToLower THEN UpperToLower[text[i]] ELSE text[i]]

\* str.lstrip("/")
RECURSIVE lstrip_slash(_)
lstrip_slash(text) ==
  IF text # <<>> /\ Head(text) = "/" THEN lstrip_slash(Tail(text)) ELSE text

\* The components of a PurePosixPath: the tokens between the slashes.
RECURSIVE PathParts(_)
PathParts(text) ==
  IF text = <<>> THEN <<>>
  ELSE IF Head(text) = "/" THEN PathParts(Tail(text))
  ELSE <<Head(text)>> \o PathParts(Tail(text))

RECURSIVE JoinSlash(_)
JoinSlash(parts) ==
  IF Len(parts) = 0 THEN <<>>
  ELSE IF Len(parts) = 1 THEN <<parts[1]>>
  ELSE <<parts[1], "/">> \o JoinSlash(Tail(parts))

\* Path(text).parent.as_posix() of a relative path.
PosixParent(text) ==
  LET parts == PathParts(text)
  IN  IF Len(parts) <= 1 THEN <<".">>
      ELSE JoinSlash(SubSeq(parts, 1, Len(parts) - 1))

\* urllib.parse.quote(text, safe='')
quote(text) ==
  [i \in 1..Len(text) |->
     IF text[i] = "/" THEN "%2F" ELSE IF text[i] = "@" THEN "%40" ELSE text[i]]

\* url.replace("https://", "https://" + userinfo + "@")
RECURSIVE WithUserinfo(_, _)
WithUserinfo(url, userinfo) ==
  IF url = <<>> THEN <<>>
  ELSE IF Head(url) = "https://"
    THEN <<"https://">> \o userinfo \o <<"@">> \o WithUserinfo(Tail(url), userinfo)
    ELSE <<Head(url)>> \o WithUserinfo(Tail(url), userinfo)

\* `sub in text` for a non-empty sub.
ContainsSeq(text, sub) ==
  /\ sub # <<>>
  /\ \E i \in 1..(Len(text) - Len(sub) + 1) :
       SubSeq(text, i, i + Len(sub) - 1) = sub

\* text.replace(old, new) for a non-empty old.
RECURSIVE str_replace(_, _, _)
str_replace(text, old, new) ==
  IF old = <<>> \/ Len(text) < Len(old) THEN text
  ELSE IF StartsWith(text, old)
    THEN new \o str_replace(SubSeq(text, Len(old) + 1, Len(text)), old, new)
    ELSE <<Head(text)>> \o str_replace(Tail(text), old, new)

\* text.split("/"): the pieces between the slashes, empty ones kept.  The
\* scheme separator "://" holds two slashes of its own.
RECURSIVE ExpandScheme(_)
ExpandScheme(text) ==
  IF text = <<>> THEN <<>>
  ELSE IF Head(text) = "https://"
    THEN <<"https:", "/", "/">> \o ExpandScheme(Tail(text))
  ELSE IF Head(text) = "http://"
    THEN <<"http:", "/", "/">> \o ExpandScheme(Tail(text))
  ELSE <<Head(text)>> \o ExpandScheme(Tail(text))

RECURSIVE SplitAtSlash(_)
SplitAtSlash(text) ==
  IF ~Contains(text, "/") THEN <<text>>
  ELSE LET i == CHOOSE k \in 1..Len(text) :
                  text[k] = "/" /\ \A j \in 1..(k - 1) : text[j] # "/"
       IN  <<SubSeq(text, 1, i - 1)>>
             \o SplitAtSlash(SubSeq(text, i + 1, Len(text)))

str_split_slash(text) == SplitAtSlash(ExpandScheme(text))

\* " ".join(args)
RECURSIVE JoinSpace(_)
JoinSpace(args) ==
  IF Len(args) = 0 THEN <<>>
  ELSE IF Len(args) = 1 THEN args[1]
  ELSE args[1] \o <<" ">> \o JoinSpace(Tail(args))

\* token[-4:]
LastFour(token) ==
  SubSeq(token, IF Len(token) > 4 THEN Len(token) - 3 ELSE 1, Len(token))

Main == <<"m", "a", "i", "n">>

Master == <<"m", "a", "s", "t", "e", "r">>

Urls ==
  { <<"https://", "github.com", "/", "u", "/", "r">>,
    <<"https://", "github.com", "/", "u", "/", "r", ".git">>,
    <<"https://", "gitlab.com", "/", "u", "/", "r">>,
    <<"http://", "github.com", "/", "u", "/", "r">>,
    <<"https://", "github.com", ".evil.com", "/", "u", "/", "r">> }

Commits == {"", "abc123"}

Branches ==
  { <<>>, Main, Master, <<"M", "a", "i", "n">>, <<"d", "e", "v">> }

Subpaths ==
  { <<"/">>, <<"/", "docs">>, <<"/", "docs", "/", "file.md">>,
    <<"/", "file.md">> }

Pats == { <<>>, <<"g", "h", "p", "_", "x", "y">>, <<"g", "h", "/", "_", "x", "y">> }

CloneConfigs ==
  [ url : Urls, commit : Commits, branch : Branches, subpath : Subpaths,
    blob : BOOLEAN ]

LOCAL_PATH == <<"/tmp/gitingest/id/repo">>

\* What the curl of check_repo_exists can come back with: an exit code
\* and the lines of its output, each split at the blanks (an empty line
\* splits into the one empty word).
StatusLines ==
  { <<"HTTP/2", "200">>, <<"HTTP/1.1", "301", "Moved", "Permanently">>,
    <<"HTTP/2", "302">>, <<"HTTP/1.1", "404", "Not", "Found">>,
    <<"HTTP/2", "500">>, <<"HTTP/2">>, <<"">> }

CurlOutcomes ==
  { [rc |-> 6, lines |-> <<>>], [rc |-> 0, lines |-> <<>>] }
    \cup { [rc |-> 0, lines |-> <<l>>] : l \in StatusLines }

NoProbe == [rc |-> -1, lines |-> <<>>]

Stars == <<"*****">>

AuthHeader(token) == <<"Authorization: token ">> \o token

\* check_repo_exists, lines 87-92: the pieces of the URL after its
\* "https://github.com/" is taken out, and the API URL made of the first two.
UrlParts(url) ==
  str_split_slash(str_replace(url, <<"https://", "github.com", "/">>, <<>>))

ApiUrl(url) ==
  <<"https://", "api.github.com", "/", "repos", "/">>
    \o UrlParts(url)[1] \o <<"/">> \o UrlParts(url)[2]

\* check_repo_exists, lines 79-105: the curl command.
CurlCmd(url, token) ==
  IF token # <<>> /\ Contains(url, "github.com")
    THEN IF Len(UrlParts(url)) >= 2
           THEN << <<"curl">>, <<"-I">>, <<"-H">>, AuthHeader(token),
                   ApiUrl(url) >>
           ELSE << <<"curl">>, <<"-I">>, <<"-H">>, AuthHeader(token), url >>
    ELSE << <<"curl">>, <<"-I">>, url >>

CURL_STDERR == <<"curl: (6) Could not resolve host">>

\* check_repo_exists, lines 82-132: the lines it logs, for what curl
\* returned.
CheckLog(url, token, curl) ==
  (IF token # <<>> /\ Contains(url, "github.com")
     THEN { <<"GitHub PAT found: ", "*****">> \o LastFour(token) }
            \cup (IF Len(UrlParts(url)) >= 2
                    THEN { <<"Using GitHub API URL: ">> \o ApiUrl(url),
                           <<"Using GitHub PAT for authentication with API URL: ">>
                             \o ApiUrl(url) }
                    ELSE { <<"Could not parse GitHub URL: ">> \o url })
     ELSE { <<"No GitHub PAT found or not a GitHub URL: ">> \o url }
            \cup (IF token = <<>>
                    THEN { <<"GITHUB_PAT environment variable is not set or empty">> }
                    ELSE {}))
  \cup { <<"Checking repo with command: ">>
           \o (IF token # <<>>
                 THEN str_replace(JoinSpace(CurlCmd(url, token)), token, Stars)
                 ELSE JoinSpace(CurlCmd(url, token))) }
  \cup (IF curl.rc # 0
          THEN { <<"Curl command failed with code ", ToString(curl.rc), ": ">>
                   \o CURL_STDERR }
        ELSE IF curl.lines = <<>> THEN {}
        ELSE { <<"GitHub API response status: ">> \o curl.lines[1] }
               \cup (IF /\ Len(curl.lines[1]) >= 2
                        /\ curl.lines[1][2] \in {"302", "404"}
                        /\ Contains(url, "github.com") /\ token # <<>>
                       THEN { <<"Got 302/404, trying to clone directly with PAT since we have credentials">> }
                       ELSE {}))

\* check_repo_exists on a 302 or 404 without regard to the token: a fault
\* C10 must detect.
check_repo_exists_NoToken(url, token, curl) ==
  IF curl.rc # 0 THEN "False"
  ELSE IF curl.lines = <<>> THEN "IndexError"
  ELSE LET parts == curl.lines[1]
       IN  IF Len(parts) >= 2 /\ parts[2] \in {"200", "301"} THEN "True"
           ELSE IF Len(parts) >= 2 /\ parts[2] \in {"302", "404"} THEN "False"
           ELSE "RuntimeError"

\* git_utils.check_repo_exists, lines 109-135: "True", "False" or the
\* exception raised, from what curl returned.
check_repo_exists(url, token, curl) ==
  IF curl.rc # 0 THEN "False"
  ELSE IF curl.lines = <<>> THEN "IndexError"
  ELSE LET parts == curl.lines[1]
       IN  IF Len(parts) >= 2 /\ parts[2] \in {"200", "301"} THEN "True"
           ELSE IF Len(parts) >= 2 /\ parts[2] \in {"302", "404"}
             THEN IF Contains(url, "github.com") /\ token # <<>>
                    THEN "True" ELSE "False"
           ELSE "RuntimeError"

\* clone_repo, lines 62-90: the URL handed to git.
CloneUrl(url, token) ==
  IF token # <<>> /\ Contains(url, "github.com")
       /\ StartsWith(url, <<"https://", "github.com">>)
    THEN LET u == WithUserinfo(url, quote(token))
         IN  IF u[Len(u)] = ".git" THEN u ELSE Append(u, ".git")
    ELSE url

\* clone_repo, lines 66-86: the credentials added to the environment.
CloneEnv(url, token) ==
  IF token # <<>> /\ Contains(url, "github.com")
       /\ ~StartsWith(url, <<"https://", "github.com">>)
    THEN [GIT_ASKPASS |-> <<"echo">>, GIT_USERNAME |-> <<"git">>,
          GIT_PASSWORD |-> token]
    ELSE [GIT_ASKPASS |-> <<>>, GIT_USERNAME |-> <<>>, GIT_PASSWORD |-> <<>>]

\* The clone command with --depth=1 whatever the commit: a fault C8 must
\* detect.
CloneCmd_AlwaysShallow(cfg, token) ==
  << <<"git">>, <<"clone">>, <<"--single-branch">> >>
    \o (IF cfg.subpath # <<"/">>
          THEN << <<"--filter=blob:none">>, <<"--sparse">> >> ELSE <<>>)
    \o << <<"--depth=1">> >>
    \o (IF cfg.commit = "" /\ cfg.branch # <<>>
             /\ str_lower(cfg.branch) \notin {Main, Master}
          THEN << <<"--branch">>, cfg.branch >> ELSE <<>>)
    \o << CloneUrl(cfg.url, token), LOCAL_PATH >>

\* clone_repo, lines 63 and 93-101: the clone command.
CloneCmd(cfg, token) ==
  << <<"git">>, <<"clone">>, <<"--single-branch">> >>
    \o (IF cfg.subpath # <<"/">>
          THEN << <<"--filter=blob:none">>, <<"--sparse">> >> ELSE <<>>)
    \o (IF cfg.commit = ""
          THEN << <<"--depth=1">> >>
                 \o (IF cfg.branch # <<>>
                          /\ str_lower(cfg.branch) \notin {Main, Master}
                       THEN << <<"--branch">>, cfg.branch >> ELSE <<>>)
          ELSE <<>>)
    \o << CloneUrl(cfg.url, token), LOCAL_PATH >>

\* The sparse path without the blob case: a fault C9 must detect.
SparsePath_KeepFile(cfg) == lstrip_slash(cfg.subpath)

\* clone_repo, lines 126-129: the path given to sparse-checkout set.
SparsePath(cfg) ==
  LET subpath == lstrip_slash(cfg.subpath)
  IN  IF cfg.blob THEN PosixParent(subpath) ELSE subpath

\* clone_repo, lines 123-134: the follow-up command.
CheckoutCmd(cfg) ==
  << <<"git">>, <<"-C">>, LOCAL_PATH >>
    \o (IF cfg.subpath # <<"/">>
          THEN << <<"sparse-checkout">>, <<"set">>, SparsePath(cfg) >>
          ELSE <<>>)
    \o (IF cfg.commit # ""
          THEN << <<"checkout">>, <<cfg.commit>> >> ELSE <<>>)

\* clone_repo, lines 102 and 117: the argument with the token replaced by
\* stars, when the token is part of it.
RedactArg(arg, token) ==
  IF token # <<>> /\ ContainsSeq(arg, token)
    THEN str_replace(arg, token, Stars) ELSE arg

SafeCmd(cmd, token) == [i \in 1..Len(cmd) |-> RedactArg(cmd[i], token)]

\* clone_repo, lines 66-102: the lines logged while the clone command is
\* built.
CloneLog(cfg, token) ==
  (IF token # <<>> /\ Contains(cfg.url, "github.com")
     THEN { <<"Using GitHub PAT for git clone: ", "*****">> \o LastFour(token) }
            \cup (IF StartsWith(cfg.url, <<"https://", "github.com">>)
                    THEN { <<"Modified clone URL to use token authentication: ">>
                             \o str_replace(CloneUrl(cfg.url, token),
                                            quote(token), <<"****">>) }
                    ELSE { <<"Added GitHub credentials to environment variables for authentication">> })
     ELSE { <<"No GitHub PAT found or not a GitHub URL when cloning: ">>
              \o cfg.url }
            \cup (IF token = <<>>
                    THEN { <<"GITHUB_PAT environment variable is not set or empty in cloning.py">> }
                    ELSE {}))
  \cup { <<"Running clone command: ">>
           \o JoinSpace(SafeCmd(CloneCmd(cfg, token), token)) }

\* What a failing git clone can write to its standard error: a text of
\* its own, or one that quotes the URL it was given.
GitErrors(cmd) ==
  { <<"fatal: repository not found">>,
    <<"fatal: unable to access '">> \o cmd[Len(cmd) - 1] \o <<"'">> }

\* clone_repo, line 116: the failure line, and line 118: the text of the
\* RuntimeError.
CloneFailLine(stderr) == <<"Clone command failed: ">> \o stderr

CloneFailMessage(cmd, token, stderr) ==
  <<"Command failed: ">> \o JoinSpace(SafeCmd(cmd, token))
    \o <<"\nError: ">> \o stderr

CHECKOUT_STDERR == <<"fatal: reference is not a tree">>

\* run_command, line 41.
RunCommandMessage(cmd, stderr) ==
  <<"Command failed: ">> \o JoinSpace(cmd) \o <<"\nError: ">> \o stderr

NoEnv == [GIT_ASKPASS |-> <<>>, GIT_USERNAME |-> <<>>, GIT_PASSWORD |-> <<>>]

CloneInit ==
  /\ config \in CloneConfigs
  /\ pat \in Pats
  /\ cpc = "start"
  /\ probe = NoProbe
  /\ exists = "unknown"
  /\ clone_cmd = <<>>
  /\ clone_env = NoEnv
  /\ checkout_cmd = <<>>
  /\ procs = <<>>
  /\ error = "none"
  /\ message = <<>>
  /\ log = {}
  /\ git_stderr = <<>>

Fail(exc, text) == cpc' = "failed" /\ error' = exc /\ message' = text

Proceed(to) == cpc' = to /\ error' = error /\ message' = message

\* clone_repo, lines 43-56: the parent of the destination is created.
CloneStart(mkdir_ok) ==
  /\ cpc = "start"
  /\ log' = log \cup { <<"Starting clone of repository: ">> \o config.url
                          \o <<" to path: ">> \o LOCAL_PATH }
  /\ IF mkdir_ok THEN Proceed("probe")
     ELSE Fail("OSError", <<"Failed to create parent directory">>)
  /\ UNCHANGED << config, pat, probe, exists, clone_cmd, clone_env,
                  checkout_cmd, procs, git_stderr >>
  /\ UNCHANGED << ingest_vars, manifest_vars >>

\* The text of the exception check_repo_exists or clone_repo raises on the
\* outcome r of the probe.
ProbeMessage(r, curl) ==
  IF r = "False"
    THEN <<"Repository not found, make sure it is public or you have access">>
  ELSE IF r = "IndexError" THEN <<"list index out of range">>
  ELSE <<"Unexpected status line: ">> \o curl.lines[1]

\* The probe with its result ignored by clone_repo: a fault C12 must
\* detect.
CheckRepoExists_Unchecked(curl) ==
  /\ cpc = "probe"
  /\ probe' = curl
  /\ procs' = Append(procs, "curl")
  /\ log' = log \cup CheckLog(config.url, pat, curl)
  /\ LET r == check_repo_exists(config.url, pat, curl)
     IN  /\ exists' = r
         /\ IF r \in {"True", "False"} THEN Proceed("clone")
            ELSE Fail(r, ProbeMessage(r, curl))
  /\ UNCHANGED << config, pat, clone_cmd, clone_env, checkout_cmd,
                  git_stderr >>
  /\ UNCHANGED << ingest_vars, manifest_vars >>

\* clone_repo, lines 59-60, with check_repo_exists: curl is run and its
\* outcome interpreted.
CheckRepoExists(curl) ==
  /\ cpc = "probe"
  /\ probe' = curl
  /\ procs' = Append(procs, "curl")
  /\ log' = log \cup CheckLog(config.url, pat, curl)
  /\ LET r == check_repo_exists(config.url, pat, curl)
     IN  /\ exists' = r
         /\ IF r = "True" THEN Proceed("clone")
            ELSE IF r = "False" THEN Fail("ValueError", ProbeMessage(r, curl))
            ELSE Fail(r, ProbeMessage(r, curl))
  /\ UNCHANGED << config, pat, clone_cmd, clone_env, checkout_cmd,
                  git_stderr >>
  /\ UNCHANGED << ingest_vars, manifest_vars >>

\* clone_repo, lines 62-120: the clone command is built, git is looked for
\* (ensure_git_installed) and the clone is run.
RunClone(git_installed, rc, stderr) ==
  /\ cpc = "clone"
  /\ clone_cmd' = CloneCmd(config, pat)
  /\ clone_env' = CloneEnv(config.url, pat)
  /\ IF ~git_installed
       THEN /\ procs' = Append(procs, "git --version")
            /\ Fail("RuntimeError",
                    <<"Git is not installed or not accessible. Please install Git first.">>)
            /\ log' = log \cup CloneLog(config, pat)
            /\ git_stderr' = git_stderr
       ELSE /\ procs' = procs \o <<"git --version", "git clone">>
            /\ IF rc # 0
                 THEN /\ Fail("RuntimeError",
                              CloneFailMessage(CloneCmd(config, pat), pat, stderr))
                      /\ log' = log \cup CloneLog(config, pat)
                                    \cup {CloneFailLine(stderr)}
                      /\ git_stderr' = stderr
                 ELSE /\ Proceed(IF config.commit # "" \/ config.subpath # <<"/">>
                                   THEN "checkout" ELSE "done")
                      /\ log' = log \cup CloneLog(config, pat)
                                    \cup {<<"Repository cloned successfully">>}
                      /\ git_stderr' = git_stderr
  /\ UNCHANGED << config, pat, probe, exists, checkout_cmd >>
  /\ UNCHANGED << ingest_vars, manifest_vars >>

\* clone_repo, lines 122-139: sparse-checkout set and/or checkout.
RunCheckout(rc) ==
  /\ cpc = "checkout"
  /\ checkout_cmd' = CheckoutCmd(config)
  /\ procs' = Append(procs, "git checkout")
  /\ IF rc # 0
       THEN /\ Fail("RuntimeError",
                    RunCommandMessage(CheckoutCmd(config), CHECKOUT_STDERR))
            /\ log' = log \cup { <<"Running checkout command: ">>
                                    \o JoinSpace(CheckoutCmd(config)) }
       ELSE /\ Proceed("done")
            /\ log' = log \cup { <<"Running checkout command: ">>
                                    \o JoinSpace(CheckoutCmd(config)),
                                  <<"Checkout completed successfully">> }
  /\ UNCHANGED << config, pat, probe, exists, clone_cmd, clone_env,
                  git_stderr >>
  /\ UNCHANGED << ingest_vars, manifest_vars >>

TIMEOUT == 60

\* utils/timeout_wrapper.py: the text of the error raised at the deadline.
TimeoutMessage ==
  <<"Operation timed out after ", ToString(TIMEOUT), " seconds">>

\* @async_timeout(TIMEOUT), line 21: the deadline passes while the call is
\* suspended on one of its external processes.
Deadline ==
  /\ cpc \in {"probe", "clone", "checkout"}
  /\ Fail("AsyncTimeoutError", TimeoutMessage)
  /\ UNCHANGED << config, pat, probe, exists, clone_cmd, clone_env,
                  checkout_cmd, procs, log, git_stderr >>
  /\ UNCHANGED << ingest_vars, manifest_vars >>

ExitCodes == {0, 128}

CloneNext ==
  \/ \E mkdir_ok \in BOOLEAN : CloneStart(mkdir_ok)
  \/ \E curl \in CurlOutcomes : CheckRepoExists(curl)
  \/ \E git_installed \in BOOLEAN, rc \in ExitCodes,
          stderr \in GitErrors(CloneCmd(config, pat)) :
       RunClone(git_installed, rc, stderr)
  \/ \E rc \in ExitCodes : RunCheckout(rc)
  \/ Deadline

(***************************************************************************)
(* apply_gitingest_file.  A TOML value is a record of its type, its text   *)
(* (strings, integers, booleans) and its items (the elements of an array;  *)
(* for the `config` table, the value of its ignore_patterns key if it has  *)
(* one).  Patterns are sequences of characters, as in the traversal.       *)
(***************************************************************************)
TStr(text) == [type |-> "str", text |-> text, items |-> <<>>]

TInt(digits) == [type |-> "int", text |-> digits, items |-> <<>>]

TBool(word) == [type |-> "bool", text |-> word, items |-> <<>>]

TArray(items) == [type |-> "array", text |-> <<>>, items |-> items]

TTable(items) == [type |-> "table", text |-> <<>>, items |-> items]

Absent == [type |-> "absent", text |-> <<>>, items |-> <<>>]

StarB == <<"*", "B">>

AStar == <<"a", "*">>

\* The values the manifests of the model give ignore_patterns.
IgnoreValues ==
  { TStr(<<>>), TStr(StarB), TInt(<<"0">>), TInt(<<"5">>), TBool(<<"true">>),
    TArray(<<>>), TArray(<<TStr(StarB)>>), TArray(<<TStr(StarB), TStr(AStar)>>),
    TArray(<<TStr(StarB), TInt(<<"3">>)>>), TArray(<<TInt(<<"3">>)>>),
    TArray(<<TStr(StarB), TArray(<<TStr(AStar)>>)>>),
    TArray(<<TTable(<<>>)>>), TTable(<<TInt(<<"1">>)>>) }

\* The values they give the top-level key `config`: none, a table with or
\* without ignore_patterns, or a value that is not a table.
ConfigValues ==
  { Absent, TTable(<<>>), TStr(StarB), TInt(<<"5">>), TArray(<<TStr(StarB)>>) }
    \cup { TTable(<<v>>) : v \in IgnoreValues }

Manifests ==
  { [present |-> FALSE, valid |-> FALSE, config |-> Absent],
    [present |-> TRUE, valid |-> FALSE, config |-> Absent] }
    \cup { [present |-> TRUE, valid |-> TRUE, config |-> c] : c \in ConfigValues }

\* query.ignore_patterns: None, or a set of patterns.
NoneSet == [is_none |-> TRUE, patterns |-> {}]

SetOf(patterns) == [is_none |-> FALSE, patterns |-> patterns]

QueryIgnores == { NoneSet, SetOf({}), SetOf({AStar}), SetOf({StarB}) }

\* bool(value) of Python for the value of a TOML key (None when absent).
Truthy(v) ==
  CASE v.type = "str"    -> v.text # <<>>
    [] v.type = "int"    -> v.text # <<"0">>
    [] v.type = "bool"   -> v.text = <<"true">>
    [] v.type = "array"  -> v.items # <<>>
    [] v.type = "table"  -> v.items # <<>>
    [] v.type = "absent" -> FALSE

\* Lists and dicts cannot be members of a Python set.
Hashable(v) == v.type \notin {"array", "table"}

Items(v) == { v.items[i] : i \in 1..Len(v.items) }

\* apply_gitingest_file, lines 150-185: from the parsed document to the
\* exception raised ("none" if none), the warnings and the ignore set.
MergeIgnorePatterns(config_section, ignore) ==
  LET out(exc, warned, ig) == [error |-> exc, warned |-> warned, ignore |-> ig]
  IN  IF config_section.type \notin {"absent", "table"}
        THEN out("AttributeError", {}, ignore)
      ELSE
        LET value == IF config_section.items = <<>> THEN Absent
                     ELSE config_section.items[1]
            listed == IF value.type = "str" THEN TArray(<<value>>) ELSE value
        IN  IF ~Truthy(value) THEN out("none", {}, ignore)
            ELSE IF listed.type # "array"
              THEN out("none", {"Expected a list/set for 'ignore_patterns'"},
                       ignore)
            ELSE IF \E v \in Items(listed) : ~Hashable(v)
              THEN out("TypeError", {}, ignore)
            ELSE
              LET valid   == { v.text : v \in { w \in Items(listed) :
                                                   w.type = "str" } }
                  invalid == { w \in Items(listed) : w.type # "str" }
                  warned  == IF invalid # {}
                               THEN {"Ignore patterns are not strings"} ELSE {}
              IN  IF valid = {} THEN out("none", warned, ignore)
                  ELSE out("none", warned, SetOf(ignore.patterns \cup valid))

ManifestInit ==
  /\ manifest \in Manifests
  /\ query_ignore \in QueryIgnores
  /\ query_before = query_ignore
  /\ mpc = "begin"
  /\ m_error = "none"
  /\ m_warnings = {}

\* No apply_gitingest_file call is made.
ManifestIdle ==
  /\ manifest = [present |-> FALSE, valid |-> FALSE, config |-> Absent]
  /\ query_ignore = NoneSet
  /\ query_before = NoneSet
  /\ mpc = "off"
  /\ m_error = "none"
  /\ m_warnings = {}

\* apply_gitingest_file, lines 138-148: the file is looked for and parsed.
LoadManifest ==
  /\ mpc = "begin"
  /\ IF ~manifest.present
       THEN mpc' = "returned" /\ m_warnings' = m_warnings
     ELSE IF ~manifest.valid
       THEN mpc' = "returned" /\ m_warnings' = m_warnings \cup {"Invalid TOML"}
     ELSE mpc' = "loaded" /\ m_warnings' = m_warnings
  /\ UNCHANGED << manifest, query_ignore, query_before, m_error >>
  /\ UNCHANGED << ingest_vars, clone_vars >>

\* apply_gitingest_file, lines 150-185: the patterns are taken out of the
\* document and merged into the query.
ApplyPatterns ==
  /\ mpc = "loaded"
  /\ LET r == MergeIgnorePatterns(manifest.config, query_ignore)
     IN  /\ m_error' = r.error
         /\ m_warnings' = m_warnings \cup r.warned
         /\ query_ignore' = r.ignore
         /\ mpc' = IF r.error = "none" THEN "returned" ELSE "raised"
  /\ UNCHANGED << manifest, query_before >>
  /\ UNCHANGED << ingest_vars, clone_vars >>

ManifestNext == LoadManifest \/ ApplyPatterns

(***************************************************************************)
(* The specifications: an ingestion of a local directory (Spec), the same  *)
(* with ingest_query run again on the unchanged directory (SpecRerun), a   *)
(* clone_repo call (SpecClone) and an apply_gitingest_file call            *)
(* (SpecManifest).                                                         *)
(***************************************************************************)
vars == << ingest_vars, clone_vars, manifest_vars >>

\* No clone_repo call is made.
CloneIdle ==
  /\ config = [url |-> <<>>, commit |-> "", branch |-> <<>>,
               subpath |-> <<"/">>, blob |-> FALSE]
  /\ pat = <<>>
  /\ cpc = "idle"
  /\ probe = NoProbe
  /\ exists = "unknown"
  /\ clone_cmd = <<>>
  /\ clone_env = NoEnv
  /\ checkout_cmd = <<>>
  /\ procs = <<>>
  /\ error = "none"
  /\ message = <<>>
  /\ log = {}
  /\ git_stderr = <<>>

\* No ingestion is made.
IngestIdle ==
  /\ fs = [p \in Paths |-> [kind |-> "none", size |-> 0]]
  /\ ignore_patterns = {}
  /\ include_patterns = {}
  /\ pc = "off"
  /\ stack = <<>>
  /\ stats = FileSystemStats
  /\ root_node = NoNode
  /\ bucket = "unread"
  /\ upload = "none"
  /\ result = NoResult
  /\ warnings = {}
  /\ runs = 0
  /\ first_tree = NoNode
  /\ first_skipped = {}
  /\ met = {}
  /\ enumerated = {}
  /\ skipped = {}

Init == IngestInit /\ CloneIdle /\ ManifestIdle

Next == IngestNext

Spec == Init /\ [][Next]_vars

NextRerun == Next \/ Rerun

SpecRerun == Init /\ [][NextRerun]_vars

InitClone == IngestIdle /\ CloneInit /\ ManifestIdle

SpecClone == InitClone /\ [][CloneNext]_vars

InitManifest == IngestIdle /\ CloneIdle /\ ManifestInit

SpecManifest == InitManifest /\ [][ManifestNext]_vars

(***************************************************************************)
(* Operators the properties are stated with.                               *)
(***************************************************************************)
RECURSIVE NodesOf(_)
NodesOf(n) ==
  {n} \cup UNION { NodesOf(n.children[i]) : i \in 1..Len(n.children) }

\* The paths linked into the tree below its root.
TreePaths(n) == { m.path : m \in NodesOf(n) } \ {n.path}

\* Every node held by the traversal: the nodes of all active calls.
LiveNodes == UNION { NodesOf(stack[i].node) : i \in 1..Len(stack) }

\* The sum of F over the nodes of a sequence.
SumOver(ns, F(_)) ==
  LET S[i \in 0..Len(ns)] == IF i = 0 THEN 0 ELSE S[i - 1] + F(ns[i])
  IN  S[Len(ns)]

SizeOf(n) == n.size
FileCountOf(n) == n.file_count
DirCountOf(n) == n.dir_count
IsSymlink(n) == IF n.type = "symlink" THEN 1 ELSE 0
DescendantDirs(n) == IF n.type = "dir" THEN 1 + n.dir_count ELSE 0

HasChild(n, type) == \E i \in 1..Len(n.children) : n.children[i].type = type

(***************************************************************************)
(* C1.  When a concrete S3 bucket is configured and the upload fails, the  *)
(* returned triple still holds the summary, the tree and the full content  *)
(* blob, and a warning is recorded.                                        *)
(***************************************************************************)
C1_UploadFailureKeepsContent ==
  (pc = "done" /\ S3Configured(bucket) /\ upload = "failed") =>
    /\ result.summary = format_node(root_node).summary
    /\ result.tree = format_node(root_node).tree
    /\ result.third = Third("content", format_node(root_node).content, "")
    /\ warnings # {}

(***************************************************************************)
(* C2.  In every reachable state of a traversal the visited-file counter   *)
(* stats.total_files is at most MAX_FILES.                                 *)
(***************************************************************************)
C2_FilesWithinCap == stats.total_files <= MAX_FILES

(***************************************************************************)
(* C3.  In every reachable state of a traversal the visited-bytes counter  *)
(* stats.total_size is at most MAX_TOTAL_SIZE_BYTES, whatever the order in *)
(* which the entries are visited.                                          *)
(***************************************************************************)
C3_BytesWithinCap == stats.total_size <= MAX_TOTAL_SIZE_BYTES

\* A traversal that counted bytes and refused a file that did not fit.
C3_Witness ==
  /\ pc = "done"
  /\ stats.total_size > 0
  /\ \E s \in skipped : s.why = "size"

(***************************************************************************)
(* C4.  No directory deeper than MAX_DIRECTORY_DEPTH has its entries       *)
(* enumerated: every directory listed has depth <= MAX_DIRECTORY_DEPTH, so *)
(* nothing that lies below a deeper directory is taken by a loop, counted  *)
(* or linked into the tree.                                                *)
(***************************************************************************)
C4_NeverPastMaxDepth ==
  /\ \A d \in enumerated : Len(d) <= MAX_DIRECTORY_DEPTH
  /\ \A p \in met : Len(p) <= MAX_DIRECTORY_DEPTH + 1
  /\ \A n \in LiveNodes \cup NodesOf(root_node) :
       /\ n.depth = Len(n.path)
       /\ n.depth <= MAX_DIRECTORY_DEPTH + 1
       /\ n.children # <<>> => n.depth <= MAX_DIRECTORY_DEPTH

\* A finished traversal that no budget stopped and that met, but did not
\* list, a non-empty directory below the maximum depth.
C4_Witness ==
  /\ pc = "done"
  /\ ~limit_exceeded(stats, 0)
  /\ \E p \in met :
       /\ fs[p].kind = "dir"
       /\ Len(p) > MAX_DIRECTORY_DEPTH
       /\ Listing(fs, p) # {}
       /\ p \in TreePaths(root_node)

(***************************************************************************)
(* C5 as stated.  In a completed tree every directory node has size equal  *)
(* to the sum of its children's size, file_count equal to the sum of its   *)
(* children's file_count, and dir_count equal to 1 plus the sum of its     *)
(* children's dir_count.                                                   *)
(***************************************************************************)
C5_AsStated ==
  pc = "done" =>
    \A n \in NodesOf(root_node) :
      n.type = "dir" =>
        /\ n.size = SumOver(n.children, SizeOf)
        /\ n.file_count = SumOver(n.children, FileCountOf)
        /\ n.dir_count = 1 + SumOver(n.children, DirCountOf)

(***************************************************************************)
(* C5.  In a completed tree every directory node has size equal to the sum *)
(* of its children's size, file_count equal to the sum of its children's   *)
(* file_count plus the number of its symlink children, and dir_count equal *)
(* to the sum over its directory children of 1 + the child's dir_count     *)
(* (the number of directories below it).                                   *)
(***************************************************************************)
C5_Aggregates ==
  pc = "done" =>
    \A n \in NodesOf(root_node) :
      n.type = "dir" =>
        /\ n.size = SumOver(n.children, SizeOf)
        /\ n.file_count =
             SumOver(n.children, FileCountOf) + SumOver(n.children, IsSymlink)
        /\ n.dir_count = SumOver(n.children, DescendantDirs)

\* A completed tree with a directory holding a file, a symlink and a
\* directory that itself holds a file.
C5_Witness ==
  /\ pc = "done"
  /\ \E n \in NodesOf(root_node) :
       /\ HasChild(n, "file")
       /\ HasChild(n, "symlink")
       /\ \E i \in 1..Len(n.children) :
            n.children[i].type = "dir" /\ HasChild(n.children[i], "file")

\* The filter rule of the claim, stated on the patterns themselves.
Retainable(p) ==
  /\ \A pattern \in ignore_patterns : ~fnmatch(PathStr(p), pattern)
  /\ \/ include_patterns = {}
     \/ \E pattern \in include_patterns : fnmatch(PathStr(p), pattern)

DroppedByBudget(p) ==
  \E s \in skipped : s.path = p /\ s.why \in {"size", "count"}

(***************************************************************************)
(* C6 as stated.  Every path met by the traversal is retained in the tree  *)
(* if and only if it matches no ignore pattern and the include set is      *)
(* empty or it matches an include pattern.                                 *)
(***************************************************************************)
C6_AsStated ==
  pc = "done" =>
    \A p \in met : (p \in TreePaths(root_node)) <=> Retainable(p)

C6_RetainedIff ==
  pc = "done" =>
    \A p \in met :
      (p \in TreePaths(root_node)) <=>
        /\ Retainable(p)
        /\ fs[p].kind \in {"symlink", "file", "dir"}
        /\ ~DroppedByBudget(p)

C6_FilteredStep ==
  \A sub \in Paths :
    (pc = "walking" /\ sub \notin met /\ sub \in met' /\ ~Retainable(sub)) =>
      (stats' = stats /\ LiveNodes' = LiveNodes)

(***************************************************************************)
(* C6.  Every path met by the traversal is retained in the tree if and     *)
(* only if it matches no ignore pattern, the include set is empty or it    *)
(* matches an include pattern, it is a symlink, a regular file or a        *)
(* directory, and _process_file did not skip it for a budget; a step that  *)
(* takes a filtered-out entry changes neither the nodes nor the stats.     *)
(***************************************************************************)
C6_Filtering == []C6_RetainedIff /\ [][C6_FilteredStep]_vars

\* A finished traversal under an ignore and an include set that met an
\* entry matching both, an entry matching neither, and retained another.
C6_Witness ==
  /\ pc = "done"
  /\ ignore_patterns # {}
  /\ include_patterns # {}
  /\ \E p, q, r \in met :
       /\ _should_exclude(p, ignore_patterns)
       /\ _should_include(p, include_patterns)
       /\ ~_should_exclude(q, ignore_patterns)
       /\ ~_should_include(q, include_patterns)
       /\ r \in TreePaths(root_node)

\* Children in order: directories first, then by the code of the name.
InOrder(n) ==
  \A i, j \in 1..Len(n.children) :
    i < j =>
      LET x == n.children[i]
          y == n.children[j]
      IN  \/ x.type = "dir" /\ y.type # "dir"
          \/ (x.type = "dir" <=> y.type = "dir") /\ Ord[x.name] < Ord[y.name]

(***************************************************************************)
(* C7 as stated.  Two traversals of the same unchanged directory with the  *)
(* same query and budgets produce the same tree, whatever order the        *)
(* directory listings return the entries in.                               *)
(***************************************************************************)
C7_AsStated ==
  (pc = "done" /\ runs >= 2) => root_node = first_tree

(***************************************************************************)
(* C7.  Every directory of a completed tree has its children in order      *)
(* (directories before files, then case-sensitive name order), and two     *)
(* traversals of the same unchanged directory with the same query during   *)
(* neither of which a file or byte budget dropped anything produce the     *)
(* same tree, whatever order the listings return the entries in.           *)
(***************************************************************************)
C7_Reproducible ==
  pc = "done" =>
    /\ \A n \in NodesOf(root_node) : InOrder(n)
    /\ (runs >= 2 /\ skipped = {} /\ first_skipped = {}) =>
         root_node = first_tree

\* A second traversal, neither hitting a budget, of a directory holding a
\* file and a subdirectory with two entries of its own.
C7_Witness ==
  /\ pc = "done"
  /\ runs >= 2
  /\ skipped = {}
  /\ first_skipped = {}
  /\ HasChild(root_node, "file")
  /\ \E i \in 1..Len(root_node.children) :
       Len(root_node.children[i].children) >= 2

HasArg(cmd, arg) == \E i \in 1..Len(cmd) : cmd[i] = arg

\* --branch is an argument of cmd and is followed by the name b.
BranchFlagIs(cmd, b) ==
  /\ HasArg(cmd, <<"--branch">>)
  /\ \A i \in 1..Len(cmd) :
       cmd[i] = <<"--branch">> => (i < Len(cmd) /\ cmd[i + 1] = b)

(***************************************************************************)
(* C8 as stated.  The clone command contains --depth=1 exactly when no     *)
(* commit is requested, and --branch <name> exactly when no commit is      *)
(* requested and a branch is given whose name is neither main nor master.  *)
(***************************************************************************)
C8_AsStated ==
  clone_cmd # <<>> =>
    /\ HasArg(clone_cmd, <<"--depth=1">>) <=> config.commit = ""
    /\ HasArg(clone_cmd, <<"--branch">>) <=>
         /\ config.commit = ""
         /\ config.branch # <<>>
         /\ config.branch \notin {Main, Master}

(***************************************************************************)
(* C8.  The clone command contains --depth=1 exactly when no commit is     *)
(* requested, and --branch <name> exactly when no commit is requested and  *)
(* a branch is given whose lower-cased name is neither main nor master;    *)
(* branch main with no commit and the root subpath gives --depth=1 and no  *)
(* --branch.                                                               *)
(***************************************************************************)
C8_CloneFlags ==
  clone_cmd # <<>> =>
    /\ HasArg(clone_cmd, <<"--depth=1">>) <=> config.commit = ""
    /\ IF /\ config.commit = ""
          /\ config.branch # <<>>
          /\ str_lower(config.branch) \notin {Main, Master}
         THEN BranchFlagIs(clone_cmd, config.branch)
         ELSE ~HasArg(clone_cmd, <<"--branch">>)

\* The clone command of branch main, no commit, root subpath.
C8_Witness ==
  /\ clone_cmd # <<>>
  /\ config.commit = ""
  /\ config.branch = Main
  /\ config.subpath = <<"/">>
  /\ HasArg(clone_cmd, <<"--depth=1">>)
  /\ ~HasArg(clone_cmd, <<"--branch">>)

\* A text without its leading slash, and without its last slash and what
\* follows it (all of it when it holds no slash).
DropLeadingSlash(text) ==
  IF text # <<>> /\ Head(text) = "/" THEN Tail(text) ELSE text

DropFileName(text) ==
  LET slashes == { i \in 1..Len(text) : text[i] = "/" }
  IN  IF slashes = {} THEN <<>>
      ELSE SubSeq(text, 1, (CHOOSE i \in slashes : \A j \in slashes : j <= i) - 1)

SparseArgIs(cmd, path) ==
  \E i \in 1..(Len(cmd) - 2) :
    /\ cmd[i] = <<"sparse-checkout">>
    /\ cmd[i + 1] = <<"set">>
    /\ cmd[i + 2] = path

(***************************************************************************)
(* C9 as stated.  For a non-root subpath marked as a single-file target    *)
(* the path given to sparse-checkout set is the subpath with its leading   *)
(* slash and its trailing file name removed; for one not so marked it is   *)
(* the subpath with only the leading slash removed.                        *)
(***************************************************************************)
C9_AsStated ==
  (checkout_cmd # <<>> /\ config.subpath # <<"/">>) =>
    SparseArgIs(checkout_cmd,
                IF config.blob
                  THEN DropFileName(DropLeadingSlash(config.subpath))
                  ELSE DropLeadingSlash(config.subpath))

(***************************************************************************)
(* C9.  For a non-root subpath marked as a single-file target the path     *)
(* given to sparse-checkout set is the subpath with its leading slash and  *)
(* its trailing file name removed, or "." when nothing is left of it (the  *)
(* file lies at the top of the repository); for one not so marked it is    *)
(* the subpath with only the leading slash removed.                        *)
(***************************************************************************)
C9_SparsePath ==
  (checkout_cmd # <<>> /\ config.subpath # <<"/">>) =>
    LET stripped == DropLeadingSlash(config.subpath)
        dir      == DropFileName(stripped)
    IN  SparseArgIs(checkout_cmd,
                    IF config.blob
                      THEN IF dir = <<>> THEN <<".">> ELSE dir
                      ELSE stripped)

\* /docs/file.md, marked single-file, gives docs.
C9_Witness ==
  /\ config.subpath = <<"/", "docs", "/", "file.md">>
  /\ config.blob
  /\ SparseArgIs(checkout_cmd, <<"docs">>)

\* check_repo_exists has returned on a response with status 302 or 404.
ProbeSaw302or404 ==
  /\ exists # "unknown"
  /\ probe.rc = 0
  /\ probe.lines # <<>>
  /\ Len(probe.lines[1]) >= 2
  /\ probe.lines[1][2] \in {"302", "404"}

(***************************************************************************)
(* C10 as stated.  For any URL, on status 404 or 302 check_repo_exists     *)
(* returns true if an access token is configured and false if none is.     *)
(***************************************************************************)
C10_AsStated ==
  ProbeSaw302or404 => exists = (IF pat # <<>> THEN "True" ELSE "False")

(***************************************************************************)
(* C10.  On status 404 or 302 check_repo_exists returns true if an access  *)
(* token is configured and the URL contains github.com, and false          *)
(* otherwise (no token, or a URL of another host).                         *)
(***************************************************************************)
C10_ProbeWithToken ==
  ProbeSaw302or404 =>
    exists = (IF pat # <<>> /\ (\E i \in 1..Len(config.url) :
                                  config.url[i] = "github.com")
                THEN "True" ELSE "False")

\* A 404 for a github.com URL with a token configured, taken as reachable.
C10_Witness ==
  /\ ProbeSaw302or404
  /\ probe.lines[1][2] = "404"
  /\ pat # <<>>
  /\ exists = "True"

\* The status code of the response check_repo_exists read: the second word
\* of the first line of curl's output, "" when there is none.
StatusCode ==
  IF probe.lines # <<>> /\ Len(probe.lines[1]) >= 2
    THEN probe.lines[1][2] ELSE ""

(***************************************************************************)
(* C11.  check_repo_exists returns true for status 200 or 301, raises the  *)
(* protocol error (RuntimeError) for every response whose status is none   *)
(* of 200, 301, 302, 404, a malformed or empty status line included, and   *)
(* for a failure of the probe itself (non-zero exit) returns false and     *)
(* does not raise.  An exit 0 without any output is allowed either of the  *)
(* two: the protocol error or false.                                       *)
(***************************************************************************)
C11_ProbeOutcomes ==
  exists # "unknown" =>
    IF probe.rc # 0 THEN exists = "False"
    ELSE IF probe.lines = <<>> THEN exists \in {"RuntimeError", "False"}
    ELSE /\ StatusCode \in {"200", "301"} => exists = "True"
         /\ StatusCode \notin {"200", "301", "302", "404"} =>
              exists = "RuntimeError"

\* The positions in procs of the clone and checkout processes.
GitProcs == { i \in 1..Len(procs) : procs[i] \in {"git clone", "git checkout"} }

(***************************************************************************)
(* C12.  In clone_repo the existence probe completes before any clone or   *)
(* checkout process is started: such a process is only ever started after  *)
(* curl and after check_repo_exists returned true.  If the probe returns   *)
(* false the call fails with the not-found error (ValueError) and no clone *)
(* or checkout process is ever started; if the parent directory cannot be  *)
(* created the call fails (OSError) before the probe is run.               *)
(***************************************************************************)
C12_ProbeFirst ==
  /\ \A i \in GitProcs :
       exists = "True" /\ \E j \in 1..(i - 1) : procs[j] = "curl"
  /\ exists = "False" =>
       cpc = "failed" /\ error = "ValueError" /\ procs = <<"curl">>
  /\ error = "OSError" =>
       cpc = "failed" /\ procs = <<>> /\ probe = NoProbe /\ exists = "unknown"

\* The call has failed on a probe that returned false.
C12_Witness ==
  /\ cpc = "failed"
  /\ exists = "False"
  /\ error = "ValueError"
  /\ procs = <<"curl">>

\* Every text clone_repo and check_repo_exists have let out: the lines
\* logged and the text of the exception raised.
Emitted == log \cup (IF message = <<>> THEN {} ELSE {message})

\* A text with the token, plain or URL-encoded, replaced by stars.
Redacted(text) == str_replace(str_replace(text, pat, Stars), quote(pat), Stars)

EndsWith(text, suffix) ==
  /\ Len(text) >= Len(suffix)
  /\ SubSeq(text, Len(text) - Len(suffix) + 1, Len(text)) = suffix

(***************************************************************************)
(* C13.  Whenever a token is configured, no log line and no error message  *)
(* emitted by clone_repo or check_repo_exists contains the token or its    *)
(* URL-encoded form, and on a non-zero exit of the clone both the logged   *)
(* failure line and the raised error end with git's error text with the    *)
(* token redacted.                                                         *)
(***************************************************************************)
C13_TokenRedacted ==
  pat # <<>> =>
    /\ \A line \in Emitted :
         ~ContainsSeq(line, pat) /\ ~ContainsSeq(line, quote(pat))
    /\ git_stderr # <<>> =>
         /\ \E line \in log : EndsWith(line, Redacted(git_stderr))
         /\ EndsWith(message, Redacted(git_stderr))

\* The patterns a manifest validly gives: its ignore_patterns when a
\* string, or the strings of its ignore_patterns when a list.
ValidPatterns ==
  IF manifest.config.type # "table" \/ manifest.config.items = <<>> THEN {}
  ELSE LET v == manifest.config.items[1]
       IN  IF v.type = "str" THEN {v.text} \ {<<>>}
           ELSE IF v.type = "array"
             THEN { v.items[i].text :
                      i \in { j \in 1..Len(v.items) : v.items[j].type = "str" } }
           ELSE {}

\* The manifest does not parse, or holds a value of the wrong shape:
\* config not a table, ignore_patterns neither a string nor a list of
\* strings.
WrongShaped ==
  /\ manifest.present
  /\ \/ ~manifest.valid
     \/ manifest.config.type \notin {"absent", "table"}
     \/ /\ manifest.config.type = "table"
        /\ manifest.config.items # <<>>
        /\ LET v == manifest.config.items[1]
           IN  \/ v.type \notin {"str", "array"}
               \/ \E i \in 1..Len(v.items) : v.items[i].type # "str"

(***************************************************************************)
(* C14.  apply_gitingest_file never raises, whatever the manifest holds:   *)
(* the call returns, the query's ignore set is what it was or that         *)
(* extended by valid string patterns of the manifest only, and a parse     *)
(* failure or a wrong-shaped value has been reported by a warning.         *)
(***************************************************************************)
C14_ManifestNeverFatal ==
  /\ mpc # "raised"
  /\ m_error = "none"
  /\ query_before.patterns \subseteq query_ignore.patterns
  /\ query_ignore.patterns \subseteq query_before.patterns \cup ValidPatterns
  /\ (mpc = "returned" /\ WrongShaped) => m_warnings # {}

\* The git invocations of the follow-up step, and of an invocation
\* `git -C <path> <subcommand> <arguments>` the subcommand and arguments.
FollowUps == IF checkout_cmd = <<>> THEN {} ELSE {checkout_cmd}

Subcommand(cmd) == cmd[4]

Arguments(cmd) == SubSeq(cmd, 5, Len(cmd))

(***************************************************************************)
(* C15.  When clone_repo is given both a commit and a non-root subpath and *)
(* the clone has succeeded, the follow-up step invokes git with            *)
(* `sparse-checkout set <path>` and with `checkout <commit>` as two git    *)
(* operations: one invocation runs the subcommand sparse-checkout with the *)
(* arguments set <path>, another the subcommand checkout with the commit.  *)
(***************************************************************************)
C15_SparseThenCheckout ==
  (cpc = "done" /\ config.commit # "" /\ config.subpath # <<"/">>) =>
    /\ \A i \in 1..Len(procs) :
         procs[i] = "git checkout" =>
           \E j \in 1..(i - 1) : procs[j] = "git clone"
    /\ \E cmd \in FollowUps :
         /\ Subcommand(cmd) = <<"sparse-checkout">>
         /\ Arguments(cmd) = << <<"set">>, SparsePath(config) >>
    /\ \E cmd \in FollowUps :
         /\ Subcommand(cmd) = <<"checkout">>
         /\ Arguments(cmd) = << <<config.commit>> >>

\* The host of a URL: what stands between the scheme and the first slash.
Host(url) ==
  LET rest == Tail(url)
      ends == { i \in 1..Len(rest) : rest[i] = "/" }
  IN  IF ends = {} THEN rest
      ELSE SubSeq(rest, 1, (CHOOSE i \in ends : \A j \in ends : i <= j) - 1)

\* The URL argument of the clone command.
UrlArg == clone_cmd[Len(clone_cmd) - 1]

(***************************************************************************)
(* C16.  Whenever a token is configured and the host of the URL is         *)
(* github.com, clone_repo embeds the token in the clone URL passed to git  *)
(* and does not place the token in the environment of the clone process;   *)
(* when no token is configured or the host is another one, the clone URL   *)
(* is the config URL unchanged.                                            *)
(***************************************************************************)
C16_TokenInUrl ==
  clone_cmd # <<>> =>
    IF pat # <<>> /\ Host(config.url) = <<"github.com">>
      THEN /\ ContainsSeq(UrlArg, pat) \/ ContainsSeq(UrlArg, quote(pat))
           /\ \A k \in DOMAIN clone_env : clone_env[k] # pat
      ELSE UrlArg = config.url

\* The step takes the regular file sub, which the filters let through.
TakesFile(sub) ==
  /\ pc = "walking"
  /\ sub \in met' \ met
  /\ fs[sub].kind = "file"
  /\ Retainable(sub)

\* The paths of the children linked under a node.
ChildPaths(n) == { n.children[i].path : i \in 1..Len(n.children) }

\* A file that would push the visited bytes over the budget changes no
\* counter and no node; the loop goes on with the entries left.
C17_SkipStep ==
  \A sub \in Paths :
    (TakesFile(sub) /\ stats.total_size + fs[sub].size > MAX_TOTAL_SIZE_BYTES) =>
      /\ stats'.total_files = stats.total_files
      /\ stats'.total_size = stats.total_size
      /\ pc' = "walking"
      /\ Len(stack') = Len(stack)
      /\ \A i \in 1..Len(stack) : stack'[i].node = stack[i].node
      /\ stack'[Len(stack)].todo = Top.todo \ {sub}

\* A file that fits both budgets is linked under its directory.
C17_FitStep ==
  \A sub \in Paths :
    ( /\ TakesFile(sub)
      /\ stats.total_size + fs[sub].size <= MAX_TOTAL_SIZE_BYTES
      /\ stats.total_files < MAX_FILES ) =>
      /\ sub \in ChildPaths(stack'[Len(stack)].node)
      /\ stats'.total_size = stats.total_size + fs[sub].size

\* Every sibling of a file skipped for its size has been taken by the loop.
C17_SiblingsMet ==
  pc = "done" =>
    \A s \in skipped :
      s.why = "size" => Listing(fs, Parent(s.path)) \subseteq met

TakesAfterFileCap(sub) ==
  /\ pc = "walking"
  /\ stats.total_files >= MAX_FILES
  /\ sub \in met' \ met
  /\ Retainable(sub)

\* The paths of all nodes held by the active calls.
LivePaths == { n.path : n \in LiveNodes }

(***************************************************************************)
(* C18 as stated.  Once the running visited-file count has reached         *)
(* MAX_FILES, every further regular file is skipped (not linked into the   *)
(* tree) but a directory met afterwards is still descended into: its       *)
(* entries are enumerated.                                                 *)
(***************************************************************************)
C18_AsStated ==
  [][ \A sub \in Paths :
        TakesAfterFileCap(sub) =>
          /\ fs[sub].kind = "file" => sub \notin LivePaths'
          /\ (fs[sub].kind = "dir" /\ Len(sub) <= MAX_DIRECTORY_DEPTH) =>
               sub \in enumerated' ]_vars

C18_CapStep ==
  \A sub \in Paths :
    TakesAfterFileCap(sub) =>
      /\ fs[sub].kind = "file" =>
           /\ sub \notin LivePaths'
           /\ \A i \in 1..Len(stack) : stack'[i].node = stack[i].node
           /\ stack'[Len(stack)].todo = Top.todo \ {sub}
      /\ fs[sub].kind = "dir" =>
           /\ enumerated' = enumerated
           /\ Len(stack') = Len(stack) + 1
           /\ stack'[Len(stack')].todo = {}
           /\ stack'[Len(stack')].node.path = sub
           /\ stack'[Len(stack')].node.children = <<>>
           /\ stack'[Len(stack)].todo = Top.todo \ {sub}
           /\ stats' = stats

\* A directory that was not listed has no children, and nothing below it
\* was taken by a loop.
C18_CutStaysEmpty ==
  /\ \A n \in LiveNodes \cup NodesOf(root_node) :
       (n.type = "dir" /\ n.path \notin enumerated) => n.children = <<>>
  /\ \A p \in met : Parent(p) \in enumerated

(***************************************************************************)
(* C18.  Once the running visited-file count has reached MAX_FILES, every  *)
(* further regular file is skipped (not linked into the tree), and a       *)
(* directory met afterwards is not descended into either: the call on it   *)
(* returns at once, its entries are not enumerated and nothing below it is *)
(* visited; only the empty node of the directory is linked.  The loops of  *)
(* the directories already being listed go on with the entries they have   *)
(* left.                                                                   *)
(***************************************************************************)
C18_FileCapCutsDirectories ==
  /\ [][C18_CapStep]_vars
  /\ []C18_CutStaysEmpty

\* A finished traversal that reached the file budget, not the byte budget,
\* and met afterwards a directory with entries, which is in the tree
\* without any of them.
C18_Witness ==
  /\ pc = "done"
  /\ stats.total_files >= MAX_FILES
  /\ stats.total_size < MAX_TOTAL_SIZE_BYTES
  /\ \E s \in skipped :
       /\ s.why = "cut"
       /\ Listing(fs, s.path) # {}
       /\ s.path \notin enumerated
       /\ s.path \in TreePaths(root_node)
       /\ \A q \in Listing(fs, s.path) : q \notin met

\* Directory p was met by a loop when its depth was past the maximum or a
\* running budget had reached its cap.
CutOff(p) ==
  /\ p \in met
  /\ fs[p].kind = "dir"
  /\ Retainable(p)
  /\ \/ Len(p) > MAX_DIRECTORY_DEPTH
     \/ \E s \in skipped : s.path = p /\ s.why = "cut"

Below(p) == { q \in Paths : Len(q) > Len(p) /\ SubSeq(q, 1, Len(p)) = p }

\* Nothing below a directory that was cut off is enumerated, taken by a
\* loop or linked.
NothingBelow(p) ==
  \A q \in Below(p) \cup {p} :
    /\ q \notin enumerated
    /\ q # p => (q \notin met /\ q \notin TreePaths(root_node))

(***************************************************************************)
(* C19 as stated.  When a directory is about to be descended into and its  *)
(* depth exceeds MAX_DIRECTORY_DEPTH or a running budget has reached its   *)
(* cap, none of its entries is enumerated and neither the directory nor    *)
(* anything below it is linked into the tree or added to an ancestor's     *)
(* size, file_count or dir_count.                                          *)
(***************************************************************************)
C19_AsStated ==
  pc = "done" =>
    \A p \in Paths :
      CutOff(p) =>
        /\ NothingBelow(p)
        /\ p \notin TreePaths(root_node)

\* The step that meets a directory past the maximum depth or with a budget
\* at its cap: the call on it returns at once, and the traversal goes on.
C19_CutStep ==
  \A sub \in Paths :
    ( /\ pc = "walking"
      /\ sub \in met' \ met
      /\ Retainable(sub)
      /\ fs[sub].kind = "dir"
      /\ \/ Len(sub) > MAX_DIRECTORY_DEPTH
         \/ stats.total_files >= MAX_FILES
         \/ stats.total_size >= MAX_TOTAL_SIZE_BYTES ) =>
      /\ enumerated' = enumerated
      /\ stats' = stats
      /\ pc' = "walking"
      /\ stack'[Len(stack')].node.path = sub
      /\ stack'[Len(stack')].todo = {}
      /\ CutOff(sub)'

\* In the finished tree a directory that was cut off is an empty node: it
\* adds nothing to the size and file_count of its ancestors and counts as
\* one directory in their dir_count.
C19_CutNode ==
  pc = "done" =>
    \A p \in Paths :
      CutOff(p) =>
        /\ NothingBelow(p)
        /\ \E n \in NodesOf(root_node) :
             /\ n.path = p
             /\ n.children = <<>>
             /\ n.size = 0 /\ n.file_count = 0 /\ n.dir_count = 0
        /\ \E m \in NodesOf(root_node) :
             /\ m.path = Parent(p)
             /\ p \in ChildPaths(m)
             /\ m.dir_count = SumOver(m.children, DescendantDirs)
             /\ m.dir_count >= 1

(***************************************************************************)
(* C19.  When a directory is about to be descended into and its depth      *)
(* exceeds MAX_DIRECTORY_DEPTH or a running budget (files, bytes) has      *)
(* reached its cap, none of its entries is enumerated and nothing below it *)
(* is linked into the tree or added to an ancestor's size, file_count or   *)
(* dir_count; the directory itself is linked as an empty node (size 0,     *)
(* file_count 0, dir_count 0) and counts as one in its ancestors'          *)
(* dir_count; the traversal does not raise and goes on.                    *)
(***************************************************************************)
C19_SubtreeCut ==
  /\ [][C19_CutStep]_vars
  /\ []C19_CutNode

\* A finished traversal that reached the byte budget and then met a
\* directory with entries: the directory is in the tree, empty, and is
\* counted by the root.
C19_Witness ==
  /\ pc = "done"
  /\ stats.total_size >= MAX_TOTAL_SIZE_BYTES
  /\ root_node.dir_count >= 1
  /\ \E p \in Paths :
       /\ CutOff(p)
       /\ Len(p) <= MAX_DIRECTORY_DEPTH
       /\ Listing(fs, p) # {}
       /\ p \in TreePaths(root_node)

====
